---------------------------- MODULE Spec2Model ----------------------------
(***************************************************************************)
(* A model of anvil: the independence Metropolis-Hastings sampler          *)
(* (src/anvil/sample.py: sample_batch, thermalised_state,                  *)
(* chain_autocorrelation and sample) and the coupling layers               *)
(* (src/anvil/layers.py: CouplingLayer, AdditiveLayer, AffineLayer, the    *)
(* bin lookup of the spline layers and                                     *)
(* RationalQuadraticSplineLayer.forward) and the training loop             *)
(* (src/anvil/train.py: handler, save_checkpoint, training_update, train). *)
(*                                                                         *)
(* Numbers.  A log-ratio is a float: NaN, +inf, -inf, or a finite value.   *)
(* Finite log-ratios are taken to be integer multiples of ln 2, so that    *)
(* exp(a - b) is the exact power of two 2^(a-b).  A uniform draw of        *)
(* random() is a point n / UDen of [0, 1), n in 0 .. UDen-1.               *)
(*                                                                         *)
(* Configurations.  The candidate with index k drawn by the c-th call of   *)
(* sample_batch is the pair <<c, k>>; its model log-density is named by    *)
(* the same pair.  A candidate also records the log-ratio that line 80     *)
(* evaluates for it and its log-density: loaded_model, action and          *)
(* log_volume_element are deterministic, so a carried-over pair evaluates  *)
(* to the log-ratio it had in the batch that produced it.                  *)
(*                                                                         *)
(* Layers.  A layer is given one configuration, a function on              *)
(* 0 .. 2 * size_half - 1 of exact numbers, and one log-density.  The s    *)
(* and t networks are functions of the passive half.  The log-density      *)
(* tensor is one object: what a forward call does to it in place is seen   *)
(* by the caller and by the next call.                                     *)
(*                                                                         *)
(* Training.  train() is followed statement by statement; a SIGTERM or     *)
(* SIGINT may be delivered between any two of them.  The model and the     *)
(* scheduler are the numbers of steps applied to them, and a checkpoint    *)
(* records those numbers with its epoch and its loss.                      *)
(*                                                                         *)
(* Specifications.                                                         *)
(*   SpecBatch       sample_batch called directly, over every kind of      *)
(*                   float                                                 *)
(*   SpecAutocorr    the loop of chain_autocorrelation on any history      *)
(*   Spec            thermalised_state, chain_autocorrelation and the      *)
(*                   start of sample, each given the results of the ones   *)
(*                   before                                                *)
(*   SpecSample      sample called directly: the production loop           *)
(*   SpecConcurrent  sample_batch while a second caller writes its files   *)
(*                   in the same working directory                         *)
(*   SpecLayers      a stack of additive or affine layers applied by hand  *)
(*                   and then as one sequential layer                      *)
(*   SpecSpline      the bin lookup on any knots, and                      *)
(*                   RationalQuadraticSplineLayer.forward                  *)
(*   SpecTrain       train on any train_range, with signals                *)
(***************************************************************************)
EXTENDS Integers, Naturals, Sequences, FiniteSets, TLC

\* ------------------------------------------------------------- bounds
\* Largest batch_size of a direct call of sample_batch.
MaxBatch == 2
\* Denominator of the grid of uniform draws.
UDen == 4
\* Largest thermalisation size.
MaxTherm == 2
\* Largest operator-supplied sample_interval.
MaxInterval == 2
\* Largest target_length.
MaxTarget == 3
\* Longest accept/reject history given to the autocorrelation loop directly.
MaxHist == 4
\* The number of states chain_autocorrelation samples (batch_size, line 173),
\* scaled down from the source's 10000.
EstBatch == 2
\* The cap on sample()'s batch size (line 251), scaled down from 10000.
BatchCap == 3
\* The most epochs one call of train() is asked for (final_epoch less the
\* first epoch of train_range).
MaxEpochs == 3
\* The most signals (SIGTERM or SIGINT) delivered to one run of train().
MaxSignals == 2
\* Largest size_half of a coupling layer (a configuration has 2 * size_half
\* components).
MaxHalf == 2
\* Largest number of layers applied one after the other.
MaxLayers == 3
\* Largest number of segments of a spline.
MaxSegments == 2
\* Knots lie on the integers -MaxKnot .. MaxKnot, values one step beyond.
MaxKnot == 2

\* ---------------------------------------------------------- constants
\* math.exp raises OverflowError from 2^1024 on (IEEE double), line 89.
ExpOverflowAt == 1024
\* math.exp returns 0.0 below 2^-1074 (the smallest subnormal), line 89.
ExpUnderflowBelow == -1074
\* A finite log-ratio far from the others (in units of ln 2).
Big == 2048

\* ------------------------------------------------------------- floats
NaN == [k |-> "nan", v |-> 0]
PosInf == [k |-> "inf", v |-> 1]
NegInf == [k |-> "inf", v |-> -1]
Fin(n) == [k |-> "fin", v |-> n]

\* The log-ratios a direct call of sample_batch is given.
LogRatioAll == {NaN, PosInf, NegInf, Fin(0), Fin(1), Fin(Big)}
\* The log-ratios of the sampling pipeline: a trained model's finite values.
LogRatioFinite == {Fin(0), Fin(1)}

\* The components of a latent configuration, and the base log-densities.
LatentValues == {1, 2}
BaseLogDensities == {0, 3}

\* Optional values: None, or a one-element sequence.
None == <<>>
Some(x) == <<x>>
Val(o) == o[1]

\* a - b on floats (line 82, line 89).
FSub(a, b) ==
    IF a.k = "nan" \/ b.k = "nan" THEN NaN
    ELSE IF a.k = "inf" /\ b.k = "inf"
         THEN (IF a.v = b.v THEN NaN ELSE a)
    ELSE IF a.k = "inf" THEN a
    ELSE IF b.k = "inf" THEN [k |-> "inf", v |-> -b.v]
    ELSE Fin(a.v - b.v)

\* a < b on floats: every comparison with NaN is false.
FLt(a, b) ==
    IF a.k = "nan" \/ b.k = "nan" THEN FALSE
    ELSE IF a.k = "inf" /\ b.k = "inf" THEN a.v < b.v
    ELSE IF a.k = "inf" THEN a.v < 0
    ELSE IF b.k = "inf" THEN b.v > 0
    ELSE a.v < b.v

\* Python's builtin min(log_ratio) over elements 0..n: keep the first element,
\* replace it by an item only when item < current (line 82).
RECURSIVE PyMin(_, _)
PyMin(f, n) ==
    IF n = 0 THEN f[0]
    ELSE LET m == PyMin(f, n - 1) IN IF FLt(f[n], m) THEN f[n] ELSE m

\* Python's builtin max(log_ratio): replace only when item > current (line 82).
RECURSIVE PyMax(_, _)
PyMax(f, n) ==
    IF n = 0 THEN f[0]
    ELSE LET m == PyMax(f, n - 1) IN IF FLt(m, f[n]) THEN f[n] ELSE m

\* math.exp of a float, given in units of ln 2: the result is 2^e, 0.0, inf,
\* NaN, or the call raises OverflowError.
Exp(x) ==
    IF x.k = "nan" THEN [k |-> "nan", e |-> 0]
    ELSE IF x.k = "inf"
         THEN (IF x.v > 0 THEN [k |-> "inf", e |-> 0] ELSE [k |-> "zero", e |-> 0])
    ELSE IF x.v >= ExpOverflowAt THEN [k |-> "overflow", e |-> 0]
    ELSE IF x.v < ExpUnderflowBelow THEN [k |-> "zero", e |-> 0]
    ELSE [k |-> "pow2", e |-> x.v]

\* math.isfinite.
isfinite(y) == y.k \in {"zero", "pow2"}

\* The guard of line 82 passes.
Guard(lr, n) == isfinite(Exp(FSub(PyMin(lr, n), PyMax(lr, n))))

\* min(1, y) of line 89: Python's min returns y only when y < 1, so 1 for
\* NaN and inf.  The result is 1, 0.0 or 2^e with e < 0.
condition(a, b) ==
    LET y == Exp(FSub(a, b)) IN
    IF y.k = "zero" THEN y
    ELSE IF y.k = "pow2" /\ y.e < 0 THEN y
    ELSE [k |-> "one", e |-> 0]

\* n / UDen <= 2^e, for e < 0.
LeqPow2(n, e) ==
    IF n = 0 THEN TRUE
    ELSE IF -e >= UDen THEN FALSE
    ELSE n * (2 ^ (-e)) <= UDen

\* random() < condition.
AcceptedStrict(n, c) ==
    IF c.k = "one" THEN TRUE
    ELSE IF c.k = "zero" THEN FALSE
    ELSE -c.e < UDen /\ n * (2 ^ (-c.e)) < UDen

\* condition <= random().
AcceptedReversed(n, c) ==
    IF c.k = "one" THEN FALSE
    ELSE IF c.k = "zero" THEN TRUE
    ELSE -c.e >= UDen \/ n * (2 ^ (-c.e)) >= UDen

\* random() <= condition (line 90), for the draw n / UDen.
Accepted(n, c) ==
    IF c.k = "one" THEN TRUE
    ELSE IF c.k = "zero" THEN n = 0
    ELSE LeqPow2(n, c.e)

\* ceil(a / b) for positive integers (lines 252, 254).
CeilDiv(a, b) == (a + b - 1) \div b

Min2(a, b) == IF a < b THEN a ELSE b

\* -------------------------------------------------------------- state
VARIABLES
    \* arguments of the run
    thermalisation,       \* None or Some(n)
    sample_interval_arg,  \* chain_autocorrelation's sample_interval: None or Some(n)
    target_length,
    \* position of the run, and the exception that ended it ("" if none)
    pc, error,
    \* results handed from one function to the next
    thermalised_state,    \* None or Some([state, log_density])
    sample_interval,      \* chain_autocorrelation's result (0: not yet)
    \* the frame of sample_batch
    sb_pc, caller, batch_size, carried,
    phi, model_log_density, log_ratio,
    i, j, history, chain_indices, u,
    ret_chain, ret_log_density,
    \* the frame of chain_autocorrelation
    step, consecutive_rejections, autocorrelations,
    \* the frame of sample
    current_state, current_log_density, batch, decorrelated_chain,
    chain_steps,          \* per row of decorrelated_chain: the number of
                          \* accept/reject steps of the production chain
                          \* after which the row was its state (0: unwritten)
    \* bookkeeping: the calls of sample_batch made so far, per caller the
    \* candidates drawn and the uniform numbers consumed, and the last entry
    \* (state, log_density) of the chain returned last (None once its caller
    \* has dropped that chain)
    calls, n_drawn, n_random, last_entry

\* ------------------------------------------------- state of the layers
VARIABLES
    \* the coupling layers under test and the tensors of the caller
    size_half,
    inner_layers,         \* sequence of layers, applied in order
    input_states,         \* the configuration tensor handed to the layers
    input_log_density,    \* the log-density tensor handed to the layers
    \* position of the caller: the pass it is making and the layers applied
    l_pc, el,
    \* the last forward call: its configuration argument and result, and the
    \* value its log-density argument had when it was called
    v_in, v_out, density_in,
    \* per pass: the value of the log-density tensor when the pass began,
    \* its resulting configuration and the log-density value it returned
    pass_base,
    output_states, output_density, output_base,
    seq_output_states, seq_output_density, seq_base

layerVars == <<size_half, inner_layers, input_states, input_log_density,
               l_pc, el, v_in, v_out, density_in, pass_base,
               output_states, output_density, output_base,
               seq_output_states, seq_output_density, seq_base>>

\* ------------------------------------------------ state of the splines
VARIABLES
    sp_pc,                \* position of the spline code under test
    \* the bin lookup: the x coordinates of the knots, the value looked up
    \* and the segment found
    knots_xcoords, value, k_this_segment,
    \* RationalQuadraticSplineLayer.forward: the layer's B and z2_equivar,
    \* the active half it is given, its local v_out_b, the active half it
    \* returns and the exception it raises ("" if none)
    B, rqs_z2_equivar, rqs_v_in_active, v_out_b, rqs_v_out, rqs_error

splineVars == <<sp_pc, knots_xcoords, value, k_this_segment,
                B, rqs_z2_equivar, rqs_v_in_active, v_out_b, rqs_v_out,
                rqs_error>>

\* ---------------------------------------- state of the working directory
VARIABLES
    files,                \* per file name: None, or Some(what was written)
    other_pc              \* a second caller of sample_batch in the same
                          \* directory: the line it is about to execute

ioVars == <<files, other_pc>>

\* ----------------------------------------------------- state of train()
VARIABLES
    t_pc,                 \* position of the process in train()
    start_epoch,          \* train_range[0]
    current_epoch, final_epoch, save_interval,
    current_loss,         \* the number of the update that computed the loss
                          \* (0: the loss passed to train)
    optimizer_steps,      \* calls of loaded_optimizer.step() completed
    scheduler_steps,      \* calls of loaded_scheduler.step() completed
    checkpoints,          \* the checkpoints saved, in order
    loss_lines,           \* lines appended to loss.txt
    exiting,              \* SystemExit is propagating
    signal_at             \* the positions at which a signal was delivered

trainVars == <<t_pc, start_epoch, current_epoch, final_epoch, save_interval,
               current_loss, optimizer_steps, scheduler_steps, checkpoints,
               loss_lines, exiting, signal_at>>

runVars == <<thermalisation, sample_interval_arg, target_length>>
flowVars == <<pc, error, thermalised_state, sample_interval>>
argVars == <<caller, batch_size, carried>>
scanVars == <<phi, model_log_density, log_ratio, i, j, history, chain_indices, u>>
retVars == <<ret_chain, ret_log_density>>
acVars == <<step, consecutive_rejections, autocorrelations>>
sampleVars == <<current_state, current_log_density, batch, decorrelated_chain,
                chain_steps>>
countVars == <<calls, n_drawn, n_random, last_entry>>
samplerVars == <<runVars, flowVars, sb_pc, argVars, scanVars, retVars, acVars,
                 sampleVars, countVars, ioVars>>
vars == <<runVars, flowVars, sb_pc, argVars, scanVars, retVars, acVars,
          sampleVars, countVars, layerVars, splineVars, ioVars, trainVars>>

Callers == {"direct", "thermalised_state", "chain_autocorrelation", "sample"}

\* The candidate with index k of the c-th call, and the log-ratio line 80
\* evaluates for it.
Candidate(c, k, r) == [id |-> <<c, k>>, lr |-> r]
\* A row of torch.empty that was never written (line 257).
Unwritten == [id |-> <<0, 0>>, lr |-> NaN]
NoId == <<0, 0>>
Empty == [p \in {} |-> 0]

\* A (state, log_density) pair.
Pair(st, ld) == [state |-> st, log_density |-> ld]

\* The idle frame of sample_batch.
FrameIdle ==
    /\ phi = Empty /\ model_log_density = Empty /\ log_ratio = Empty
    /\ i = 0 /\ j = 0 /\ chain_indices = Empty /\ u = -1

\* The files sample_batch writes (lines 68-69).
FileNames == {"base.txt", "target.txt"}

\* What np.savetxt leaves in a file: the tensor of the c-th call of a caller.
Written(who, c) == [caller |-> who, call |-> c]

\* Neither file exists.
NoFiles == [f \in FileNames |-> None]

\* No layer is under test.
LayersIdle ==
    /\ size_half = 0 /\ inner_layers = <<>>
    /\ input_states = Empty /\ input_log_density = 0
    /\ l_pc = "idle" /\ el = 0
    /\ v_in = Empty /\ v_out = Empty /\ density_in = 0
    /\ pass_base = 0
    /\ output_states = Empty /\ output_density = 0 /\ output_base = 0
    /\ seq_output_states = Empty /\ seq_output_density = 0 /\ seq_base = 0

\* No spline is under test.
LookupIdle ==
    /\ knots_xcoords = Empty /\ value = 0 /\ k_this_segment = 0

ForwardIdle ==
    /\ B = 0 /\ rqs_z2_equivar = FALSE
    /\ rqs_v_in_active = Empty /\ v_out_b = Empty /\ rqs_v_out = Empty
    /\ rqs_error = ""

SplinesIdle == sp_pc = "idle" /\ LookupIdle /\ ForwardIdle

\* train() is not running.
TrainIdle ==
    /\ t_pc = "idle"
    /\ start_epoch = 0 /\ current_epoch = 0 /\ final_epoch = 0
    /\ save_interval = 1
    /\ current_loss = 0 /\ optimizer_steps = 0 /\ scheduler_steps = 0
    /\ checkpoints = <<>>
    /\ loss_lines = 0
    /\ exiting = FALSE
    /\ signal_at = <<>>

InitCommon ==
    /\ LayersIdle /\ SplinesIdle /\ TrainIdle
    /\ files = NoFiles
    /\ error = ""
    /\ FrameIdle
    /\ ret_chain = Empty /\ ret_log_density = Empty
    /\ step = 0 /\ consecutive_rejections = 0 /\ autocorrelations = Empty
    /\ current_state = Unwritten /\ current_log_density = NoId
    /\ batch = 0 /\ decorrelated_chain = Empty /\ chain_steps = Empty
    /\ calls = <<>>
    /\ n_drawn = [c \in Callers |-> 0]
    /\ n_random = [c \in Callers |-> 0]
    /\ last_entry = None

\* The sampler is not running.
SamplerIdle ==
    /\ files = NoFiles /\ other_pc = "idle"
    /\ error = ""
    /\ FrameIdle
    /\ ret_chain = Empty /\ ret_log_density = Empty
    /\ step = 0 /\ consecutive_rejections = 0 /\ autocorrelations = Empty
    /\ current_state = Unwritten /\ current_log_density = NoId
    /\ batch = 0 /\ decorrelated_chain = Empty /\ chain_steps = Empty
    /\ calls = <<>>
    /\ n_drawn = [c \in Callers |-> 0]
    /\ n_random = [c \in Callers |-> 0]
    /\ last_entry = None
    /\ thermalised_state = None /\ sample_interval = 0
    /\ thermalisation = None /\ sample_interval_arg = None /\ target_length = 1
    /\ pc = "idle" /\ sb_pc = "idle"
    /\ caller = "direct" /\ batch_size = 0 /\ carried = None
    /\ history = Empty

\* ------------------------------------------------------- sample_batch
\* The call of sample_batch(loaded_model, generator, action, size, state).
Call(who, size, state) ==
    /\ sb_pc' = "call"
    /\ caller' = who
    /\ batch_size' = size
    /\ carried' = state

\* Element 0 is left as drawn.
Phi0Fresh(c, state, r) == Candidate(c, 0, r)

\* Lines 73-75: element 0 and its density are overwritten by the carried pair.
Phi0(c, state, r) ==
    IF state # None THEN Val(state).state ELSE Candidate(c, 0, r)

\* The log-density of a fresh generation for element 0 whatever is carried.
Density0Fresh(c, state) == <<c, 0>>

Density0(c, state) ==
    IF state # None THEN Val(state).log_density ELSE <<c, 0>>

\* Lines 64-85: draw batch_size + 1 candidates, overwrite element 0 by the
\* carried pair, allocate history and chain_indices, evaluate log_ratio and
\* raise LogRatioNanError when the guard fails.
SB_Generate(V) ==
    /\ sb_pc = "call"
    /\ \E r \in [0 .. batch_size -> V] :
        LET c == Len(calls) + 1
            cand == [k \in 0 .. batch_size |->
                        IF k = 0 THEN Phi0(c, carried, r[0])
                        ELSE Candidate(c, k, r[k])]
            lr == [k \in 0 .. batch_size |-> cand[k].lr]
        IN
        /\ calls' = Append(calls, [caller |-> caller, batch_size |-> batch_size,
                                   carried |-> carried])
        /\ files' = [f \in FileNames |-> Some(Written(caller, c))]
        /\ n_drawn' = [n_drawn EXCEPT ![caller] = @ + batch_size + 1]
        /\ phi' = cand
        /\ model_log_density' =
              [k \in 0 .. batch_size |->
                  IF k = 0 THEN Density0(c, carried) ELSE <<c, k>>]
        /\ log_ratio' = lr
        /\ history' = [p \in 0 .. batch_size - 1 |-> FALSE]
        /\ chain_indices' = [p \in 0 .. batch_size - 1 |-> 0]
        /\ i' = 0
        /\ u' = -1
        /\ IF Guard(lr, batch_size)
           THEN /\ sb_pc' = "scan"
                /\ j' = 1
                /\ UNCHANGED <<pc, error>>
           ELSE /\ sb_pc' = "raised"
                /\ j' = 0
                /\ pc' = "failed"
                /\ error' = "LogRatioNanError"
    /\ UNCHANGED <<layerVars, splineVars, trainVars, other_pc>>
    /\ UNCHANGED <<runVars, thermalised_state, sample_interval, argVars, retVars,
                   acVars, sampleVars, n_random, last_entry>>

\* Lines 91-93: the proposal j is accepted.
AcceptBranch(ci, h, cur, prop) ==
    [chain_indices |-> [ci EXCEPT ![prop - 1] = prop],
     history |-> [h EXCEPT ![prop - 1] = TRUE],
     i |-> prop]

\* The rejected proposal leaves chain_indices[j - 1] as allocated.
RejectBranchStale(ci, h, cur, prop) ==
    [chain_indices |-> ci, history |-> h, i |-> cur]

\* Line 95: the proposal j is rejected.
RejectBranch(ci, h, cur, prop) ==
    [chain_indices |-> [ci EXCEPT ![prop - 1] = cur],
     history |-> h,
     i |-> cur]

\* Lines 88-95: one iteration of the accept/reject scan.  exp may raise
\* OverflowError before random() is called.
SB_Step ==
    /\ sb_pc = "scan"
    /\ j <= batch_size
    /\ IF Exp(FSub(log_ratio[i], log_ratio[j])).k = "overflow"
       THEN /\ sb_pc' = "raised"
            /\ pc' = "failed"
            /\ error' = "OverflowError"
            /\ UNCHANGED <<i, j, history, chain_indices, u, n_random>>
       ELSE \E n \in 0 .. UDen - 1 :
            LET new == IF Accepted(n, condition(log_ratio[i], log_ratio[j]))
                       THEN AcceptBranch(chain_indices, history, i, j)
                       ELSE RejectBranch(chain_indices, history, i, j)
            IN
            /\ chain_indices' = new.chain_indices
            /\ history' = new.history
            /\ i' = new.i
            /\ j' = j + 1
            /\ u' = n
            /\ n_random' = [n_random EXCEPT ![caller] = @ + 1]
            /\ UNCHANGED <<sb_pc, pc, error>>
    /\ UNCHANGED <<layerVars, splineVars, trainVars, ioVars>>
    /\ UNCHANGED <<runVars, thermalised_state, sample_interval, argVars,
                   phi, model_log_density, log_ratio, retVars, acVars,
                   sampleVars, calls, n_drawn, last_entry>>

\* Line 97: return phi[chain_indices], model_log_density[chain_indices], history.
SB_Return ==
    /\ sb_pc = "scan"
    /\ j > batch_size
    /\ sb_pc' = "returned"
    /\ ret_chain' = [p \in 0 .. batch_size - 1 |-> phi[chain_indices[p]]]
    /\ ret_log_density' =
          [p \in 0 .. batch_size - 1 |-> model_log_density[chain_indices[p]]]
    /\ phi' = Empty /\ model_log_density' = Empty /\ log_ratio' = Empty
    /\ chain_indices' = Empty
    /\ i' = 0 /\ j' = 0 /\ u' = -1
    /\ last_entry' = Some(Pair(phi[chain_indices[batch_size - 1]],
                               model_log_density[chain_indices[batch_size - 1]]))
    /\ UNCHANGED <<layerVars, splineVars, trainVars, ioVars>>
    /\ UNCHANGED <<runVars, flowVars, argVars, history, acVars, sampleVars,
                   calls, n_drawn, n_random>>

\* A direct call of sample_batch, with every argument drawn from a small set.
CarriedStates ==
    {None} \cup {Some(Pair(Candidate(0, 1, r), <<0, 1>>)) : r \in LogRatioAll}

SampleBatchArguments ==
    /\ InitCommon
    /\ thermalised_state = None /\ sample_interval = 0
    /\ thermalisation = None /\ sample_interval_arg = None /\ target_length = 1
    /\ pc = "sample_batch"
    /\ sb_pc = "call"
    /\ caller = "direct"
    /\ batch_size \in 1 .. MaxBatch
    /\ carried \in CarriedStates
    /\ history = Empty

InitBatch == SampleBatchArguments /\ other_pc = "idle"

NextBatch ==
    \/ SB_Generate(LogRatioAll)
    \/ SB_Step
    \/ SB_Return

SpecBatch == InitBatch /\ [][NextBatch]_vars

\* -------------------------------------------------- thermalised_state
\* Line 124: states[-1], current_log_density[-1] of a batch of n entries.
FirstOfBatch(chain, density, n) == Pair(chain[0], density[0])
LastOfBatch(chain, density, n) == Pair(chain[n - 1], density[n - 1])

\* Lines 117-122: return None when thermalisation is None, else call
\* sample_batch for thermalisation states, with no carried state.
ThermalisedState ==
    /\ pc = "thermalised_state"
    /\ sb_pc = "idle"
    /\ IF thermalisation = None
       THEN /\ thermalised_state' = None
            /\ pc' = "chain_autocorrelation"
            /\ UNCHANGED <<sb_pc, argVars>>
       ELSE /\ Call("thermalised_state", Val(thermalisation), None)
            /\ UNCHANGED <<pc, thermalised_state>>
    /\ UNCHANGED <<layerVars, splineVars, trainVars, ioVars>>
    /\ UNCHANGED <<runVars, error, sample_interval, scanVars, retVars, acVars,
                   sampleVars, countVars>>

\* Lines 120-124: keep the last state and its log-density, drop the rest.
ThermalisedStateReturn ==
    /\ caller = "thermalised_state"
    /\ sb_pc = "returned"
    /\ thermalised_state' = Some(LastOfBatch(ret_chain, ret_log_density, batch_size))
    /\ pc' = "chain_autocorrelation"
    /\ sb_pc' = "idle"
    /\ ret_chain' = Empty /\ ret_log_density' = Empty /\ history' = Empty
    /\ UNCHANGED <<layerVars, splineVars, trainVars, ioVars>>
    /\ UNCHANGED <<runVars, error, sample_interval, argVars,
                   phi, model_log_density, log_ratio, i, j, chain_indices, u,
                   acVars, sampleVars, countVars>>

\* ---------------------------------------------- chain_autocorrelation
\* Line 169: "if sample_interval" holds for a given, non-zero interval.
SuppliedNever(arg) == FALSE
Supplied(arg) == arg # None /\ Val(arg) # 0

\* Lines 169-178: return a supplied interval; else sample EstBatch states,
\* unpacking the thermalised pair as the carried state (TypeError for None).
ChainAutocorrelation ==
    /\ pc = "chain_autocorrelation"
    /\ sb_pc = "idle"
    /\ IF Supplied(sample_interval_arg)
       THEN /\ sample_interval' = Val(sample_interval_arg)
            /\ pc' = "sample"
            /\ UNCHANGED <<error, sb_pc, argVars>>
       ELSE IF thermalised_state = None
       THEN /\ pc' = "failed"
            /\ error' = "TypeError"
            /\ UNCHANGED <<sample_interval, sb_pc, argVars>>
       ELSE /\ Call("chain_autocorrelation", EstBatch, thermalised_state)
            /\ UNCHANGED <<pc, error, sample_interval>>
    /\ UNCHANGED <<layerVars, splineVars, trainVars, ioVars>>
    /\ UNCHANGED <<runVars, thermalised_state, scanVars, retVars, acVars,
                   sampleVars, countVars>>

\* Lines 176-185: keep the history only; allocate sample_size + 1 bins.
ChainAutocorrelationReturn ==
    /\ caller = "chain_autocorrelation"
    /\ sb_pc = "returned"
    /\ pc' = "autocorr_loop"
    /\ sb_pc' = "idle"
    /\ ret_chain' = Empty /\ ret_log_density' = Empty
    /\ last_entry' = None
    /\ autocorrelations' = [k \in 0 .. batch_size |-> 0]
    /\ consecutive_rejections' = 0
    /\ step' = 0
    /\ UNCHANGED <<layerVars, splineVars, trainVars, ioVars>>
    /\ UNCHANGED <<runVars, error, thermalised_state, sample_interval, argVars,
                   scanVars, sampleVars, calls, n_drawn, n_random>>

\* Lines 190-192 and 197-199:
\* autocorrelations[1 : r + 1] += arange(r, 0, -1).
AddRun(ac, r) ==
    [k \in DOMAIN ac |-> IF 1 <= k /\ k <= r THEN ac[k] + (r - k + 1) ELSE ac[k]]

\* Lines 187-195: one step of the loop over the history, whose length
\* sample_size is the batch_size of the call that returned it.
AutocorrStep ==
    /\ pc = "autocorr_loop"
    /\ step < batch_size
    /\ IF history[step]
       THEN /\ autocorrelations' =
                  IF consecutive_rejections > 0
                  THEN AddRun(autocorrelations, consecutive_rejections)
                  ELSE autocorrelations
            /\ consecutive_rejections' = 0
       ELSE /\ consecutive_rejections' = consecutive_rejections + 1
            /\ UNCHANGED autocorrelations
    /\ step' = step + 1
    /\ UNCHANGED <<layerVars, splineVars, trainVars, ioVars>>
    /\ UNCHANGED <<runVars, flowVars, sb_pc, argVars, scanVars, retVars,
                   sampleVars, countVars>>

\* The last rejection run is dropped.
PickUpNone(ac, r) == ac

\* Lines 196-199: pick up the last rejection run.
PickUpLast(ac, r) == IF r > 0 THEN AddRun(ac, r) ELSE ac

RECURSIVE Factorial(_)
Factorial(n) == IF n <= 1 THEN 1 ELSE n * Factorial(n - 1)

\* The sum of ac[k] / (n + 1 - k) over k = 0..m, times the common denominator d.
RECURSIVE NormalisedSum(_, _, _, _)
NormalisedSum(ac, n, m, d) ==
    IF m < 0 THEN 0
    ELSE NormalisedSum(ac, n, m - 1, d) + ac[m] * (d \div (n + 1 - m))

\* Lines 202-205: ceil(2 * (0.5 + sum(autocorrelations / arange(n + 1, 0, -1)))),
\* in exact arithmetic over the denominator (n + 1)! (the source rounds each
\* quotient and the sum to float32).
Stride(ac, n) ==
    LET d == Factorial(n + 1) IN
    CeilDiv(d + 2 * NormalisedSum(ac, n, n, d), d)

\* Lines 196-210: pick up the last run, normalise, integrate and return.
AutocorrFinish ==
    /\ pc = "autocorr_loop"
    /\ step = batch_size
    /\ autocorrelations' = PickUpLast(autocorrelations, consecutive_rejections)
    /\ sample_interval' = Stride(autocorrelations', batch_size)
    /\ pc' = "sample"
    /\ UNCHANGED <<layerVars, splineVars, trainVars, ioVars>>
    /\ UNCHANGED <<runVars, error, thermalised_state, sb_pc, argVars, scanVars,
                   retVars, step, consecutive_rejections, sampleVars, countVars>>

\* The loop of chain_autocorrelation on a history of any length.
Histories == UNION {[0 .. n - 1 -> BOOLEAN] : n \in 1 .. MaxHist}

InitAutocorr ==
    /\ LayersIdle /\ SplinesIdle /\ TrainIdle
    /\ files = NoFiles /\ other_pc = "idle"
    /\ error = ""
    /\ thermalisation = None /\ sample_interval_arg = None /\ target_length = 1
    /\ thermalised_state = None
    /\ sample_interval = 0
    /\ pc = "autocorr_loop"
    /\ sb_pc = "idle"
    /\ caller = "chain_autocorrelation"
    /\ carried = None
    /\ history \in Histories
    /\ batch_size = Cardinality(DOMAIN history)
    /\ FrameIdle
    /\ ret_chain = Empty /\ ret_log_density = Empty
    /\ step = 0 /\ consecutive_rejections = 0
    /\ autocorrelations = [k \in 0 .. batch_size |-> 0]
    /\ current_state = Unwritten /\ current_log_density = NoId
    /\ batch = 0 /\ decorrelated_chain = Empty /\ chain_steps = Empty
    /\ calls = <<>>
    /\ n_drawn = [c \in Callers |-> 0]
    /\ n_random = [c \in Callers |-> 0]
    /\ last_entry = None

NextAutocorr ==
    \/ AutocorrStep
    \/ AutocorrFinish

SpecAutocorr == InitAutocorr /\ [][NextAutocorr]_vars

\* ------------------------------------------------------------- sample
\* Lines 251-255.
dec_samp_per_batch(t, s) == CeilDiv(Min2(t, BatchCap), s)
\* Line 251 alone: the batch size is not rounded up to a multiple of s.
ProductionBatchSizeUnrounded(t, s) == Min2(t, BatchCap)
ProductionBatchSize(t, s) == dec_samp_per_batch(t, s) * s
n_batches(t, s) == CeilDiv(t, dec_samp_per_batch(t, s))
actual_length(t, s) == dec_samp_per_batch(t, s) * n_batches(t, s)

\* Lines 243-260: unpack the thermalised pair (TypeError for None), size the
\* batches and allocate the decorrelated chain.
Sample ==
    /\ pc = "sample"
    /\ IF thermalised_state = None
       THEN /\ pc' = "failed"
            /\ error' = "TypeError"
            /\ UNCHANGED <<sampleVars>>
       ELSE /\ current_state' = Val(thermalised_state).state
            /\ current_log_density' = Val(thermalised_state).log_density
            /\ decorrelated_chain' =
                  [q \in 0 .. actual_length(target_length, sample_interval) - 1 |->
                      Unwritten]
            /\ chain_steps' =
                  [q \in 0 .. actual_length(target_length, sample_interval) - 1 |->
                      0]
            /\ batch' = 0
            /\ pc' = "sample_loop"
            /\ UNCHANGED error
    /\ history' = Empty
    /\ step' = 0 /\ consecutive_rejections' = 0 /\ autocorrelations' = Empty
    /\ UNCHANGED <<layerVars, splineVars, trainVars, ioVars>>
    /\ UNCHANGED <<runVars, thermalised_state, sample_interval, sb_pc, argVars,
                   phi, model_log_density, log_ratio, i, j, chain_indices, u,
                   retVars, countVars>>

\* Lines 268-277: the next batch, carrying the current pair.
SampleBatchCall ==
    /\ pc = "sample_loop"
    /\ sb_pc = "idle"
    /\ batch < n_batches(target_length, sample_interval)
    /\ Call("sample", ProductionBatchSize(target_length, sample_interval),
            Some(Pair(current_state, current_log_density)))
    /\ UNCHANGED <<layerVars, splineVars, trainVars, ioVars>>
    /\ UNCHANGED <<runVars, flowVars, scanVars, retVars, acVars, sampleVars,
                   countVars>>

\* Lines 285-287: rows start .. start + dec - 1 receive batch_chain[::interval].
AddToChain(chain, start, dec, interval, batch_chain) ==
    [q \in DOMAIN chain |->
        IF start <= q /\ q < start + dec
        THEN batch_chain[(q - start) * interval]
        ELSE chain[q]]

\* The steps of the production chain a batch of n entries stands for, once
\* the chain has made done steps: entry p is the state after step
\* done - n + p + 1.
BatchSteps(done, n) == [p \in 0 .. n - 1 |-> done - n + p + 1]

\* Lines 278-287: carry the last entry of the batch and add every
\* sample_interval-th entry to the decorrelated chain.
SampleBatchReturn ==
    /\ caller = "sample"
    /\ sb_pc = "returned"
    /\ LET last == LastOfBatch(ret_chain, ret_log_density, batch_size)
           dec == dec_samp_per_batch(target_length, sample_interval)
       IN
       /\ current_state' = last.state
       /\ current_log_density' = last.log_density
       /\ decorrelated_chain' =
             AddToChain(decorrelated_chain, batch * dec, dec, sample_interval,
                        ret_chain)
       /\ chain_steps' =
             AddToChain(chain_steps, batch * dec, dec, sample_interval,
                        BatchSteps(n_random[caller], batch_size))
    /\ batch' = batch + 1
    /\ sb_pc' = "idle"
    /\ ret_chain' = Empty /\ ret_log_density' = Empty /\ history' = Empty
    /\ UNCHANGED <<layerVars, splineVars, trainVars, ioVars>>
    /\ UNCHANGED <<runVars, flowVars, argVars,
                   phi, model_log_density, log_ratio, i, j, chain_indices, u,
                   acVars, countVars>>

\* Lines 288-295: the loop is over; return decorrelated_chain.
SampleFinish ==
    /\ pc = "sample_loop"
    /\ sb_pc = "idle"
    /\ batch = n_batches(target_length, sample_interval)
    /\ pc' = "done"
    /\ UNCHANGED <<layerVars, splineVars, trainVars, ioVars>>
    /\ UNCHANGED <<runVars, error, thermalised_state, sample_interval, sb_pc,
                   argVars, scanVars, retVars, acVars, sampleVars, countVars>>

\* ------------------------------------------------------------- layers
\* Tensors.  A configuration is a function on 0 .. 2 * size_half - 1, one
\* sample of the batch.  A real x is stored as the integer x * Unit, and the
\* latent components are whole numbers, so that the factor exp(-s) of an
\* affine layer is exact: s is an integer multiple of ln 2 and every layer
\* halves a component at most once.  A log-density is counted in units of
\* ln 2.
Unit == 2 ^ MaxLayers

\* Number of elements of a tensor.
numel(a) == Cardinality(DOMAIN a)

slice(a, b) == [start |-> a, stop |-> b]

\* v[:, ind] for a slice ind.
Index(v, ind) == [p \in 0 .. ind.stop - ind.start - 1 |-> v[ind.start + p]]

\* torch.cat((a, b), dim=1).
cat(a, b) ==
    [p \in 0 .. numel(a) + numel(b) - 1 |->
        IF p < numel(a) THEN a[p] ELSE b[p - numel(a)]]

\* CouplingLayer.__init__, lines 100-111: the slices of the passive and of
\* the active partition and the function joining [passive, active].
\* The first half whatever the parity.
passive_ind_first(h, even_sites) == slice(0, h)

passive_ind(h, even_sites) ==
    IF even_sites THEN slice(0, h) ELSE slice(h, 2 * h)

\* The first half for the active partition too.
active_ind_first(h, even_sites) == slice(0, h)

active_ind(h, even_sites) ==
    IF even_sites THEN slice(h, 2 * h) ELSE slice(0, h)

\* torch.cat whatever the parity.
join_func_cat(even_sites, a0, a1) == cat(a0, a1)

join_func(even_sites, a0, a1) ==
    IF even_sites THEN cat(a0, a1) ELSE cat(a1, a0)

\* The conditioners.  The s and t networks are functions of the passive
\* half (lines 151-153, 211-214: the network applied to the standardised
\* passive half).  "zero" returns zero parameters, "const" the same
\* parameters for every input, "dense" parameters depending on every
\* passive component.
Nets == {"zero", "const", "dense"}

RECURSIVE SumTo(_, _)
SumTo(x, n) == IF n = 0 THEN 0 ELSE x[n - 1] + SumTo(x, n - 1)

\* x.sum().
sum(x) == SumTo(x, numel(x))

t_network(net, x) ==
    [k \in DOMAIN x |->
        IF net = "zero" THEN 0
        ELSE IF net = "const" THEN Unit
        ELSE sum(x)]

s_network(net, x) ==
    [k \in DOMAIN x |->
        IF net = "zero" THEN 0
        ELSE IF net = "const" THEN -1
        ELSE ((sum(x) \div Unit + k) % 3) - 1]

\* x * exp(-s) for s in units of ln 2.
TimesExpMinus(x, s) == IF s <= 0 THEN x * (2 ^ (-s)) ELSE x \div (2 ^ s)

abs(x) == IF x < 0 THEN -x ELSE x

\* The result of a forward call: the tensors it returns, and the values its
\* two tensor arguments hold when it returns.
Result(vo, ld, v_arg, ld_arg) ==
    [v_out |-> vo, log_density |-> ld, v_in |-> v_arg, log_density_in |-> ld_arg]

\* The shift added to the active half.
AdditiveActivePlus(a, t) == a + t

\* Line 155: v_in_active - t_out.
AdditiveActive(a, t) == a - t

\* AdditiveLayer.forward, lines 146-157.
AdditiveForward(h, layer, v, ld) ==
    LET v_in_passive == Index(v, passive_ind(h, layer.even_sites))
        v_in_active == Index(v, active_ind(h, layer.even_sites))
        t_out == t_network(layer.net, v_in_passive)
    IN
    Result(join_func(layer.even_sites, v_in_passive,
                     [k \in DOMAIN v_in_active |->
                         AdditiveActive(v_in_active[k], t_out[k])]),
           ld, v, ld)

\* Line 221: (v_in_active - t_out) * exp(-s_out).
AffineActive(a, s, t) == TimesExpMinus(a - t, s)

\* Line 223: log_density += s_out.sum(dim=1, keepdim=True).
Accumulate(ld, s_out) == ld + sum(s_out)

\* AffineLayer.forward, lines 207-225.  Line 223 adds in place: the tensor
\* returned is the tensor passed, which holds the sum from then on.
AffineForward(h, layer, v, ld) ==
    LET v_in_passive == Index(v, passive_ind(h, layer.even_sites))
        v_in_active == Index(v, active_ind(h, layer.even_sites))
        s_net == s_network(layer.net, v_in_passive)
        t_out == t_network(layer.net, v_in_passive)
        s_out == IF layer.z2_equivar
                 THEN [k \in DOMAIN s_net |-> abs(s_net[k])]
                 ELSE s_net
        total == Accumulate(ld, s_out)
    IN
    Result(join_func(layer.even_sites, v_in_passive,
                     [k \in DOMAIN v_in_active |->
                         AffineActive(v_in_active[k], s_out[k], t_out[k])]),
           total, v, total)

\* layer(v, log_density).
Forward(h, layer, v, ld) ==
    IF layer.kind = "additive"
    THEN AdditiveForward(h, layer, v, ld)
    ELSE AffineForward(h, layer, v, ld)

\* The stacks: layers of one kind and one conditioner, of any parities.
LayerOptions == {"additive", "affine"} \X BOOLEAN \X Nets

Stacks ==
    UNION {{[k \in 1 .. n |->
                [kind |-> c[1], z2_equivar |-> c[2], net |-> c[3],
                 even_sites |-> par[k]]] :
              par \in [1 .. n -> BOOLEAN], c \in LayerOptions} :
           n \in 1 .. MaxLayers}

\* The latent [1, 2, ..., 2h].
Ramp(h) == [p \in 0 .. 2 * h - 1 |-> (p + 1) * Unit]

Latents(h) ==
    [0 .. 2 * h - 1 -> {x * Unit : x \in LatentValues}] \cup {Ramp(h)}

\* One forward call of layer number k on the tensors in flight: the
\* caller's tensors for the first call, then the tensors the call before
\* returned.
Apply(k) ==
    LET v == IF el = 0 THEN input_states ELSE v_out
        r == Forward(size_half, inner_layers[k], v, input_log_density)
    IN
    /\ v_in' = v
    /\ density_in' = input_log_density
    /\ v_out' = r.v_out
    /\ input_log_density' = r.log_density_in
    /\ input_states' = IF el = 0 THEN r.v_in ELSE input_states
    /\ el' = el + 1

\* The layers taken from the last to the first.
ManualOrderReversed(n, k) == n - k

\* test_sequential_basic, lines 141-143: inner_layers[0], then the others
\* in order.
ManualOrder(n, k) == k + 1

\* Lines 141-143: the next layer is applied by hand.
ManualForward ==
    /\ l_pc = "manual"
    /\ el < Len(inner_layers)
    /\ Apply(ManualOrder(Len(inner_layers), el))
    /\ UNCHANGED <<size_half, inner_layers, l_pc, pass_base,
                   output_states, output_density, output_base,
                   seq_output_states, seq_output_density, seq_base>>
    /\ UNCHANGED <<samplerVars, splineVars, trainVars>>

\* Lines 141-145: output_states and output_density are bound, and the
\* sequential layer is called with the same tensors.
ManualDone ==
    /\ l_pc = "manual"
    /\ el = Len(inner_layers)
    /\ output_states' = v_out
    /\ output_density' = input_log_density
    /\ output_base' = pass_base
    /\ pass_base' = input_log_density
    /\ l_pc' = "sequential"
    /\ el' = 0
    /\ UNCHANGED <<size_half, inner_layers, input_states, input_log_density,
                   v_in, v_out, density_in,
                   seq_output_states, seq_output_density, seq_base>>
    /\ UNCHANGED <<samplerVars, splineVars, trainVars>>

\* Sequential.forward: each layer in order, the results of one handed to
\* the next.
SequentialForward ==
    /\ l_pc = "sequential"
    /\ el < Len(inner_layers)
    /\ Apply(el + 1)
    /\ UNCHANGED <<size_half, inner_layers, l_pc, pass_base,
                   output_states, output_density, output_base,
                   seq_output_states, seq_output_density, seq_base>>
    /\ UNCHANGED <<samplerVars, splineVars, trainVars>>

\* Line 145: seq_output_states and seq_output_density are bound.
SequentialReturn ==
    /\ l_pc = "sequential"
    /\ el = Len(inner_layers)
    /\ seq_output_states' = v_out
    /\ seq_output_density' = input_log_density
    /\ seq_base' = pass_base
    /\ l_pc' = "compared"
    /\ UNCHANGED <<size_half, inner_layers, input_states, input_log_density,
                   el, v_in, v_out, density_in, pass_base,
                   output_states, output_density, output_base>>
    /\ UNCHANGED <<samplerVars, splineVars, trainVars>>

\* The layers before any call: gaussian_input is a latent configuration
\* with its base log-density.
InitLayers ==
    /\ SamplerIdle /\ SplinesIdle /\ TrainIdle
    /\ size_half \in 1 .. MaxHalf
    /\ inner_layers \in Stacks
    /\ input_states \in Latents(size_half)
    /\ input_log_density \in BaseLogDensities
    /\ l_pc = "manual"
    /\ el = 0
    /\ v_in = Empty /\ v_out = Empty /\ density_in = 0
    /\ pass_base = input_log_density
    /\ output_states = Empty /\ output_density = 0 /\ output_base = 0
    /\ seq_output_states = Empty /\ seq_output_density = 0 /\ seq_base = 0

NextLayers ==
    \/ ManualForward
    \/ ManualDone
    \/ SequentialForward
    \/ SequentialReturn

SpecLayers == InitLayers /\ [][NextLayers]_vars

\* ------------------------------------------------------------ splines
\* searchsorted(a, v) of torchsearchsorted, side = 'left': the first index
\* at which v can be inserted keeping a sorted, that is the number of
\* elements of a below v.
searchsorted(a, v) == Cardinality({q \in DOMAIN a : a[q] < v})

\* x.clamp(lo, hi).
clamp(x, lo, hi) == IF x < lo THEN lo ELSE IF x > hi THEN hi ELSE x

\* Lines 301-303, 417-423 and 571-577:
\* (searchsorted(knots, v) - 1).clamp(0, n_segments - 1).
Segment(knots, v) == clamp(searchsorted(knots, v) - 1, 0, numel(knots) - 2)

\* The bin lookup applied to one value.
LocateBin ==
    /\ sp_pc = "lookup"
    /\ k_this_segment' = Segment(knots_xcoords, value)
    /\ sp_pc' = "located"
    /\ UNCHANGED <<knots_xcoords, value, B, rqs_z2_equivar,
                   rqs_v_in_active, v_out_b, rqs_v_out, rqs_error>>
    /\ UNCHANGED <<samplerVars, layerVars, trainVars>>

\* Lines 526-528: the components outside [-B, B] are copied to v_out_b, which
\* line 521 filled with zeros.
LinearTails(v, b) == [k \in DOMAIN v |-> IF abs(v[k]) <= b THEN 0 ELSE v[k]]

\* RationalQuadraticSplineLayer.forward, lines 509-528.  With z2_equivar
\* line 519 reads v_in_passive_stand, a name that is never bound.
RQSForwardTails ==
    /\ sp_pc = "forward"
    /\ IF rqs_z2_equivar
       THEN /\ sp_pc' = "raised"
            /\ rqs_error' = "NameError"
            /\ UNCHANGED v_out_b
       ELSE /\ sp_pc' = "tails"
            /\ v_out_b' = LinearTails(rqs_v_in_active, B)
            /\ UNCHANGED rqs_error
    /\ UNCHANGED <<knots_xcoords, value, k_this_segment, B,
                   rqs_z2_equivar, rqs_v_in_active, rqs_v_out>>
    /\ UNCHANGED <<samplerVars, layerVars, trainVars>>

\* Lines 530-548: the network is evaluated and h_norm and w_norm are built;
\* line 547 reads d_raw, a name that is never bound, so the call ends here
\* with a NameError and returns nothing.
RQSForwardParameters ==
    /\ sp_pc = "tails"
    /\ sp_pc' = "raised"
    /\ rqs_error' = "NameError"
    /\ UNCHANGED <<knots_xcoords, value, k_this_segment, B,
                   rqs_z2_equivar, rqs_v_in_active, v_out_b, rqs_v_out>>
    /\ UNCHANGED <<samplerVars, layerVars, trainVars>>

\* Strictly increasing knot sequences of 1 .. MaxSegments segments.
KnotSequences ==
    UNION {{a \in [0 .. n -> -MaxKnot .. MaxKnot] :
               \A q \in 0 .. n - 1 : a[q] < a[q + 1]} :
           n \in 1 .. MaxSegments}

\* The bin lookup is given any knot sequence and any value.
InitLookup ==
    /\ sp_pc = "lookup"
    /\ knots_xcoords \in KnotSequences
    /\ value \in -MaxKnot - 1 .. MaxKnot + 1
    /\ k_this_segment = 0
    /\ ForwardIdle

\* forward is given any active half, inside and outside [-B, B].
InitForward ==
    /\ sp_pc = "forward"
    /\ LookupIdle
    /\ B \in 1 .. MaxKnot
    /\ rqs_z2_equivar \in BOOLEAN
    /\ rqs_v_in_active \in
          UNION {[0 .. h - 1 -> -MaxKnot - 1 .. MaxKnot + 1] : h \in 1 .. MaxHalf}
    /\ v_out_b = Empty /\ rqs_v_out = Empty
    /\ rqs_error = ""

InitSpline ==
    /\ SamplerIdle /\ LayersIdle /\ TrainIdle
    /\ InitLookup \/ InitForward

NextSpline ==
    \/ LocateBin
    \/ RQSForwardTails
    \/ RQSForwardParameters

SpecSpline == InitSpline /\ [][NextSpline]_vars

\* ------------------------------------------- two callers, one directory
\* A second process calls sample_batch in the same working directory while
\* the first call runs.  Of the second call only the two np.savetxt lines
\* are followed.
\* Line 68: np.savetxt("base.txt", z).
OtherSaveBase ==
    /\ other_pc = "line 68"
    /\ files' = [files EXCEPT !["base.txt"] = Some(Written("other", 1))]
    /\ other_pc' = "line 69"
    /\ UNCHANGED <<runVars, flowVars, sb_pc, argVars, scanVars, retVars, acVars,
                   sampleVars, countVars, layerVars, splineVars, trainVars>>

\* Line 69: np.savetxt("target.txt", phi).
OtherSaveTarget ==
    /\ other_pc = "line 69"
    /\ files' = [files EXCEPT !["target.txt"] = Some(Written("other", 1))]
    /\ other_pc' = "line 71"
    /\ UNCHANGED <<runVars, flowVars, sb_pc, argVars, scanVars, retVars, acVars,
                   sampleVars, countVars, layerVars, splineVars, trainVars>>

InitConcurrent == SampleBatchArguments /\ other_pc = "line 68"

NextConcurrent ==
    \/ SB_Generate(LogRatioFinite)
    \/ SB_Step
    \/ SB_Return
    \/ OtherSaveBase
    \/ OtherSaveTarget

SpecConcurrent == InitConcurrent /\ [][NextConcurrent]_vars

\* -------------------------------------------------------------- train
\* Line 168: the loss is reported every 25 epochs.
LossInterval == 25

\* The first epoch of train_range: a new model, or one loaded from the
\* checkpoint of an earlier epoch.
StartEpochs == {0, 23}

\* save_interval: a short interval, and the default of line 129.
SaveIntervals == {2, 1000}

\* The positions inside the try statement, lines 142-173.
InsideTry ==
    {"while", "save", "update", "step", "scheduler", "assign", "increment",
     "loss"}

\* The signal ends the process at once, as it does without a handler.
handler_default(pos) == "exited"

\* Lines 22-30 and 142-175: the handler calls sys.exit(1), which raises
\* SystemExit at the position the process is at; inside the try statement
\* control passes to the finally clause, elsewhere the exception leaves
\* train().
handler(pos) == IF pos \in InsideTry THEN "finally" ELSE "exited"

\* Lines 33-44: the checkpoint holds the epoch, the loss and the states of
\* the model, of the optimizer and of the scheduler as they are now.
save_checkpoint(saved, epoch, loss, model, scheduler) ==
    Append(saved, [epoch |-> epoch, loss |-> loss,
                   optimizer_steps |-> model, scheduler_steps |-> scheduler])

\* Lines 135-142: train_range is unpacked and the try statement entered.
TrainStart ==
    /\ t_pc = "start"
    /\ current_epoch' = start_epoch
    /\ t_pc' = "while"
    /\ UNCHANGED <<start_epoch, final_epoch, save_interval, current_loss,
                   optimizer_steps, scheduler_steps, checkpoints, loss_lines,
                   exiting, signal_at>>
    /\ UNCHANGED <<samplerVars, layerVars, splineVars>>

\* Line 143: while current_epoch < final_epoch.
LoopTest ==
    /\ t_pc = "while"
    /\ t_pc' = IF current_epoch < final_epoch THEN "save" ELSE "finally"
    /\ UNCHANGED <<start_epoch, current_epoch, final_epoch, save_interval,
                   current_loss, optimizer_steps, scheduler_steps, checkpoints,
                   loss_lines, exiting, signal_at>>
    /\ UNCHANGED <<samplerVars, layerVars, splineVars>>

\* Lines 145-153: a checkpoint every save_interval epochs.
PeriodicSave ==
    /\ t_pc = "save"
    /\ checkpoints' =
          IF current_epoch % save_interval = 0
          THEN save_checkpoint(checkpoints, current_epoch, current_loss,
                               optimizer_steps, scheduler_steps)
          ELSE checkpoints
    /\ t_pc' = "update"
    /\ UNCHANGED <<start_epoch, current_epoch, final_epoch, save_interval,
                   current_loss, optimizer_steps, scheduler_steps, loss_lines,
                   exiting, signal_at>>
    /\ UNCHANGED <<samplerVars, layerVars, splineVars>>

\* training_update, lines 91-108: the latents, the loss and its gradients.
TrainingForward ==
    /\ t_pc = "update"
    /\ t_pc' = "step"
    /\ UNCHANGED <<start_epoch, current_epoch, final_epoch, save_interval,
                   current_loss, optimizer_steps, scheduler_steps, checkpoints,
                   loss_lines, exiting, signal_at>>
    /\ UNCHANGED <<samplerVars, layerVars, splineVars>>

\* Line 109: loaded_optimizer.step() changes the parameters of the model.
OptimizerStep ==
    /\ t_pc = "step"
    /\ optimizer_steps' = optimizer_steps + 1
    /\ t_pc' = "scheduler"
    /\ UNCHANGED <<start_epoch, current_epoch, final_epoch, save_interval,
                   current_loss, scheduler_steps, checkpoints, loss_lines,
                   exiting, signal_at>>
    /\ UNCHANGED <<samplerVars, layerVars, splineVars>>

\* Line 113: loaded_scheduler.step().
SchedulerStep ==
    /\ t_pc = "scheduler"
    /\ scheduler_steps' = scheduler_steps + 1
    /\ t_pc' = "assign"
    /\ UNCHANGED <<start_epoch, current_epoch, final_epoch, save_interval,
                   current_loss, optimizer_steps, checkpoints, loss_lines,
                   exiting, signal_at>>
    /\ UNCHANGED <<samplerVars, layerVars, splineVars>>

\* Lines 115 and 155: training_update returns the loss of this update, which
\* train binds to current_loss.
TrainingUpdateReturn ==
    /\ t_pc = "assign"
    /\ current_loss' = optimizer_steps
    /\ t_pc' = "increment"
    /\ UNCHANGED <<start_epoch, current_epoch, final_epoch, save_interval,
                   optimizer_steps, scheduler_steps, checkpoints, loss_lines,
                   exiting, signal_at>>
    /\ UNCHANGED <<samplerVars, layerVars, splineVars>>

\* Line 165: current_epoch += 1.
Increment ==
    /\ t_pc = "increment"
    /\ current_epoch' = current_epoch + 1
    /\ t_pc' = "loss"
    /\ UNCHANGED <<start_epoch, final_epoch, save_interval, current_loss,
                   optimizer_steps, scheduler_steps, checkpoints, loss_lines,
                   exiting, signal_at>>
    /\ UNCHANGED <<samplerVars, layerVars, splineVars>>

\* Lines 166-173: every 25 epochs the loss is appended to loss.txt.
LossReport ==
    /\ t_pc = "loss"
    /\ loss_lines' =
          IF current_epoch % LossInterval = 0
          THEN loss_lines + 1
          ELSE loss_lines
    /\ t_pc' = "while"
    /\ UNCHANGED <<start_epoch, current_epoch, final_epoch, save_interval,
                   current_loss, optimizer_steps, scheduler_steps, checkpoints,
                   exiting, signal_at>>
    /\ UNCHANGED <<samplerVars, layerVars, splineVars>>

\* Lines 175-185: the finally clause saves a checkpoint; then train returns
\* the model, or the SystemExit that led here goes on.
FinalSave ==
    /\ t_pc = "finally"
    /\ checkpoints' =
          save_checkpoint(checkpoints, current_epoch, current_loss,
                          optimizer_steps, scheduler_steps)
    /\ t_pc' = IF exiting THEN "exited" ELSE "returned"
    /\ UNCHANGED <<start_epoch, current_epoch, final_epoch, save_interval,
                   current_loss, optimizer_steps, scheduler_steps, loss_lines,
                   exiting, signal_at>>
    /\ UNCHANGED <<samplerVars, layerVars, splineVars>>

\* SIGTERM or SIGINT is delivered while the process is in train(): the
\* handler runs at the position the process has reached.
Signal ==
    /\ t_pc \notin {"idle", "returned", "exited"}
    /\ Len(signal_at) < MaxSignals
    /\ signal_at' = Append(signal_at, t_pc)
    /\ exiting' = TRUE
    /\ t_pc' = handler(t_pc)
    /\ UNCHANGED <<start_epoch, current_epoch, final_epoch, save_interval,
                   current_loss, optimizer_steps, scheduler_steps, checkpoints,
                   loss_lines>>
    /\ UNCHANGED <<samplerVars, layerVars, splineVars>>

\* train() is called with any train_range of at most MaxEpochs epochs.
InitTrain ==
    /\ SamplerIdle /\ LayersIdle /\ SplinesIdle
    /\ t_pc = "start"
    /\ start_epoch \in StartEpochs
    /\ current_epoch = 0
    /\ final_epoch \in start_epoch .. start_epoch + MaxEpochs
    /\ save_interval \in SaveIntervals
    /\ current_loss = 0 /\ optimizer_steps = 0 /\ scheduler_steps = 0
    /\ checkpoints = <<>>
    /\ loss_lines = 0
    /\ exiting = FALSE
    /\ signal_at = <<>>

NextTrain ==
    \/ TrainStart
    \/ LoopTest
    \/ PeriodicSave
    \/ TrainingForward
    \/ OptimizerStep
    \/ SchedulerStep
    \/ TrainingUpdateReturn
    \/ Increment
    \/ LossReport
    \/ FinalSave
    \/ Signal

SpecTrain == InitTrain /\ [][NextTrain]_vars

\* ---------------------------------------------------- specifications
\* The run up to production: thermalised_state, then chain_autocorrelation
\* given its result, then the start of sample given both.
Init ==
    /\ InitCommon
    /\ other_pc = "idle"
    /\ thermalised_state = None /\ sample_interval = 0
    /\ thermalisation \in {None} \cup {Some(n) : n \in 1 .. MaxTherm}
    /\ sample_interval_arg \in {None} \cup {Some(n) : n \in 1 .. MaxInterval}
    /\ target_length \in 1 .. MaxTarget
    /\ pc = "thermalised_state"
    /\ sb_pc = "idle"
    /\ caller = "direct"
    /\ batch_size = 0
    /\ carried = None
    /\ history = Empty

Next ==
    \/ ThermalisedState
    \/ ThermalisedStateReturn
    \/ ChainAutocorrelation
    \/ ChainAutocorrelationReturn
    \/ AutocorrStep
    \/ AutocorrFinish
    \/ Sample
    \/ SB_Generate(LogRatioFinite)
    \/ SB_Step
    \/ SB_Return

Spec == Init /\ [][Next]_vars

\* sample() called with every argument drawn from a small set: the
\* thermalised pair (or None), the sampling interval and the target length.
ThermalisedStates ==
    {None} \cup {Some(Pair(Candidate(0, 1, r), <<0, 1>>)) : r \in LogRatioFinite}

InitSample ==
    /\ InitCommon
    /\ other_pc = "idle"
    /\ thermalised_state \in ThermalisedStates
    /\ sample_interval \in 1 .. MaxInterval
    /\ thermalisation = None /\ sample_interval_arg = None
    /\ target_length \in 1 .. MaxTarget
    /\ pc = "sample"
    /\ sb_pc = "idle"
    /\ caller = "direct"
    /\ batch_size = 0
    /\ carried = None
    /\ history = Empty

NextSample ==
    \/ Sample
    \/ SampleBatchCall
    \/ SampleBatchReturn
    \/ SampleFinish
    \/ SB_Generate(LogRatioFinite)
    \/ SB_Step
    \/ SB_Return

SpecSample == InitSample /\ [][NextSample]_vars

\* ------------------------------------------------- claims: sample_batch
\* The proposal the last iteration of the scan decided, and the current index
\* before it (the previous chain entry, or 0).
LastProposal == j - 1
LastCurrent == IF j = 2 THEN 0 ELSE chain_indices[j - 3]

\* n / UDen <= min(1, exp(a - b)) over the reals extended by +-inf, for a
\* difference a - b that is a number.
DrawWithinProbability(n, a, b) ==
    IF a.k = "fin" /\ b.k = "fin"
    THEN \/ a.v >= b.v
         \/ n = 0
         \/ b.v - a.v < UDen /\ n * (2 ^ (b.v - a.v)) <= UDen
    ELSE IF (a.k = "inf" /\ a.v > 0) \/ (b.k = "inf" /\ b.v < 0) THEN TRUE
    ELSE n = 0

IsNumber(x) == x.k # "nan"

\* C1: the scan starts with i = 0 at j = 1, visits j = 1..batch_size in
\* increasing order drawing one uniform number per proposal, accepts the
\* proposal j exactly when u <= min(1, exp(log_ratio[i] - log_ratio[j])), and
\* then sets i = j and history[j-1] = True, else leaves i and history[j-1] = False.
C1_ScanRule ==
    sb_pc = "scan" =>
        /\ j \in 1 .. batch_size + 1
        /\ n_random[caller] = j - 1
        /\ (j = 1 => i = 0 /\ u = -1)
        /\ (j >= 2 /\ IsNumber(FSub(log_ratio[LastCurrent], log_ratio[LastProposal])) =>
              /\ u \in 0 .. UDen - 1
              /\ history[LastProposal - 1] =
                    DrawWithinProbability(u, log_ratio[LastCurrent],
                                          log_ratio[LastProposal])
              /\ i = IF history[LastProposal - 1] THEN LastProposal ELSE LastCurrent)
        /\ \A p \in j .. batch_size : history[p - 1] = FALSE

\* A proposal rejected, then a proposal accepted with u equal to its
\* acceptance probability 1/2.
C1_Witness ==
    /\ sb_pc = "scan" /\ j = 3
    /\ log_ratio[0] = Fin(0) /\ log_ratio[1] = Fin(1) /\ log_ratio[2] = Fin(1)
    /\ ~history[0] /\ history[1] /\ i = 2
    /\ 2 * u = UDen

\* Candidate 0 of the call: the carried state, or the candidate drawn.
Candidate0Id == IF carried # None THEN Val(carried).state.id ELSE <<Len(calls), 0>>

\* C2: in a returned batch the chain entry j is the previous entry (candidate
\* 0 for j = 1) when history[j-1] is False and candidate j when it is True; no
\* entry is a candidate of a larger index or a rejected candidate.
C2_ChainEntries ==
    sb_pc = "returned" =>
        \A p \in 1 .. batch_size :
            /\ history[p - 1] => ret_chain[p - 1].id = <<Len(calls), p>>
            /\ ~history[p - 1] /\ p = 1 => ret_chain[0].id = Candidate0Id
            /\ ~history[p - 1] /\ p > 1 => ret_chain[p - 1] = ret_chain[p - 2]
            /\ \/ ret_chain[p - 1].id = Candidate0Id
               \/ \E q \in 1 .. p : history[q - 1] /\ ret_chain[p - 1].id = <<Len(calls), q>>

\* Proposal 1 accepted and proposal 2 rejected: entry 2 repeats candidate 1.
C2_Witness ==
    /\ sb_pc = "returned" /\ batch_size = 2
    /\ history[0] /\ ~history[1]
    /\ ret_chain[1] = ret_chain[0] /\ ret_chain[0].id = <<1, 1>>

\* C4 (as claimed): once the guard has passed, no log_ratio of the batch is
\* NaN or infinite; a batch with such a value raises LogRatioNanError before
\* the scan.
C4_NonFiniteRaises ==
    sb_pc \in {"scan", "returned"} /\ log_ratio # Empty =>
        \A k \in 0 .. batch_size : log_ratio[k].k = "fin"

\* C5: when every candidate of the batch has the same finite log_ratio, every
\* proposal is accepted: history is all True, chain entry j is candidate j and
\* the accepted fraction is 1.
AllEqualFinite ==
    \A k \in 0 .. batch_size : log_ratio[k].k = "fin" /\ log_ratio[k] = log_ratio[0]

C5_ConstantAcceptsAll ==
    log_ratio # Empty /\ AllEqualFinite =>
        /\ sb_pc = "scan"
        /\ \A p \in 1 .. j - 1 :
              /\ history[p - 1]
              /\ chain_indices[p - 1] = p
              /\ phi[chain_indices[p - 1]].id = <<Len(calls), p>>
        /\ (j = batch_size + 1 =>
              Cardinality({p \in 1 .. batch_size : history[p - 1]}) = batch_size)

C5_Witness ==
    /\ sb_pc = "scan" /\ batch_size = MaxBatch /\ j = batch_size + 1
    /\ AllEqualFinite
    /\ \A p \in 1 .. batch_size : history[p - 1]

\* ------------------------------------------------------ claims: sample
\* C3: in sample() every production batch after the first starts from the
\* last entry of the batch before it: candidate 0 and its log-density are the
\* carried pair, and when the first proposal is rejected the first chain
\* entry of the batch is the last entry of the previous batch.
C3_ContinuousAcrossBatches ==
    caller = "sample" /\ sb_pc = "scan" /\ batch >= 1 =>
        /\ last_entry # None
        /\ phi[0] = Val(last_entry).state
        /\ model_log_density[0] = Val(last_entry).log_density
        /\ (j >= 2 /\ ~history[0] => phi[chain_indices[0]] = Val(last_entry).state)

\* The second production batch rejects its first proposal, after a first
\* batch that ended on a candidate it had accepted.
C3_Witness ==
    /\ caller = "sample" /\ sb_pc = "scan" /\ batch = 1
    /\ j >= 2 /\ ~history[0]
    /\ phi[chain_indices[0]].id[1] = 1
    /\ phi[chain_indices[0]].id[2] >= 1

\* ------------------------------------------- claims: thermalised_state
CallsBy(who) == {c \in 1 .. Len(calls) : calls[c].caller = who}

\* C6: thermalised_state with size n makes exactly one call of sample_batch,
\* of size n and without a carried state, and returns the last chain entry
\* with its log-density; the other entries and the history are dropped.
C6_ThermalisedIsLastEntry ==
    /\ Cardinality(CallsBy("thermalised_state")) =
          IF thermalisation = None
             \/ (pc = "thermalised_state" /\ sb_pc \in {"idle", "call"})
          THEN 0 ELSE 1
    /\ (thermalisation # None /\ pc = "chain_autocorrelation" /\ sb_pc = "idle" =>
          /\ calls = <<[caller |-> "thermalised_state",
                        batch_size |-> Val(thermalisation),
                        carried |-> None]>>
          /\ thermalised_state = last_entry
          /\ thermalised_state # None
          /\ ret_chain = Empty /\ ret_log_density = Empty /\ history = Empty)

\* A thermalisation of two states whose last entry is the second proposal.
C6_Witness ==
    /\ pc = "chain_autocorrelation" /\ sb_pc = "idle"
    /\ thermalisation = Some(2)
    /\ thermalised_state # None
    /\ Val(thermalised_state).state.id = <<1, 2>>

\* C7 (as claimed): with thermalisation = None the stride estimation and the
\* production run without error.
C7_SkippedThermalisationRuns ==
    thermalisation = None => pc # "failed" /\ error = ""

\* --------------------------------------- claims: chain_autocorrelation
\* The maximal runs <<start, length>> of rejections in h[0 .. n-1].
MaximalRuns(h, n) ==
    {run \in (0 .. n - 1) \X (1 .. n) :
        /\ run[1] + run[2] <= n
        /\ \A q \in run[1] .. run[1] + run[2] - 1 : ~h[q]
        /\ (run[1] = 0 \/ h[run[1] - 1])
        /\ (run[1] + run[2] = n \/ h[run[1] + run[2]])}

\* What the runs of a set add to the bin of lag k: r - k + 1 for each run of
\* length r >= k (one unit for each t in 1 .. r - k + 1).
Contribution(runs, n, k) ==
    Cardinality({x \in runs \X (1 .. n) : x[2] <= x[1][2] - k + 1})

\* C8: every maximal run of r rejections adds r, r-1, ..., 1 to the bins of
\* lags 1..r exactly once, a run that ends with the history included;
\* accepted steps add nothing and bin 0 stays 0.  During the loop the bins
\* hold the runs closed so far and consecutive_rejections the open run.
C8_RunsFillBins ==
    /\ (pc = "autocorr_loop" =>
          LET closed == {run \in MaximalRuns(history, step) : run[1] + run[2] < step}
              open == {run \in MaximalRuns(history, step) : run[1] + run[2] = step}
          IN
          /\ autocorrelations[0] = 0
          /\ \A k \in 1 .. batch_size :
                autocorrelations[k] = Contribution(closed, batch_size, k)
          /\ consecutive_rejections =
                IF open = {} THEN 0 ELSE (CHOOSE run \in open : TRUE)[2])
    /\ (pc = "sample" /\ autocorrelations # Empty =>
          /\ autocorrelations[0] = 0
          /\ \A k \in 1 .. batch_size :
                autocorrelations[k] =
                    Contribution(MaximalRuns(history, batch_size), batch_size, k))

\* The history reject, accept, reject, reject: a run of 1 and a last run of 2.
C8_Witness ==
    /\ pc = "sample" /\ batch_size = 4
    /\ ~history[0] /\ history[1] /\ ~history[2] /\ ~history[3]
    /\ autocorrelations[1] = 3 /\ autocorrelations[2] = 1
    /\ autocorrelations[3] = 0 /\ autocorrelations[4] = 0

\* The sum of ac[k] / (n - k) over k = 0..m, times the common denominator d.
RECURSIVE ClaimedSum(_, _, _, _)
ClaimedSum(ac, n, m, d) ==
    IF m < 0 THEN 0
    ELSE ClaimedSum(ac, n, m - 1, d) + ac[m] * (d \div (n - m))

\* C9 (as claimed): for a history of length N the bin of each lag is divided
\* by N - lag, tau_int is 0.5 plus the sum and the stride is ceil(2 tau_int).
\* (Stated where the bin of lag N is empty: N - N is no divisor.)
C9_NormalisedByNMinusLag ==
    pc = "sample" /\ autocorrelations # Empty /\ autocorrelations[batch_size] = 0 =>
        LET d == Factorial(batch_size) IN
        sample_interval =
            CeilDiv(d + 2 * ClaimedSum(autocorrelations, batch_size, batch_size - 1, d), d)

\* C10: a supplied sample_interval is returned unchanged and nothing is
\* estimated: chain_autocorrelation calls sample_batch never, draws no
\* candidate and consumes no random number.
C10_SuppliedIntervalBypasses ==
    sample_interval_arg # None =>
        /\ sample_interval \in {0, Val(sample_interval_arg)}
        /\ (pc \in {"sample", "sample_loop"} => sample_interval = Val(sample_interval_arg))
        /\ CallsBy("chain_autocorrelation") = {}
        /\ n_drawn["chain_autocorrelation"] = 0
        /\ n_random["chain_autocorrelation"] = 0
        /\ autocorrelations = Empty

\* After a thermalisation, chain_autocorrelation has returned the interval 2
\* it was given.
C10_Witness ==
    /\ sample_interval_arg = Some(2) /\ sample_interval = 2
    /\ thermalisation # None /\ thermalised_state # None
    /\ pc = "sample"
    /\ Len(calls) = 1

\* C25: once the guard of sample_batch has passed, the scan completes for
\* every j in 1 .. batch_size and sample_batch returns: no evaluation of
\* exp(log_ratio[i] - log_ratio[j]) in the loop raises an error.
C25_ScanNeverRaises ==
    (Len(calls) > 0 /\ log_ratio # Empty /\ Guard(log_ratio, batch_size)) =>
        /\ error = ""
        /\ sb_pc = "scan"

\* C24: every log-density sample_batch returns is the model log-density of
\* the configuration returned at the same chain position, the carried-over
\* entry included; so the pair carried from batch to batch in sample() and the
\* pair thermalised_state returns are a configuration with its own log-density.
C24_DensityOfItsConfiguration ==
    /\ sb_pc = "returned" =>
          \A p \in DOMAIN ret_chain : ret_log_density[p] = ret_chain[p].id
    /\ carried # None => Val(carried).log_density = Val(carried).state.id
    /\ thermalised_state # None =>
          Val(thermalised_state).log_density = Val(thermalised_state).state.id
    /\ pc = "sample_loop" => current_log_density = current_state.id

\* A later batch of sample() has returned a chain that starts with the
\* carried-over state and ends with a configuration of this batch.
C24_Witness ==
    /\ sb_pc = "returned"
    /\ caller = "sample"
    /\ batch >= 1
    /\ carried # None
    /\ ret_chain[0] = Val(carried).state
    /\ ret_chain[batch_size - 1].id[1] = Len(calls)

\* ------------------------------------------------------- claims: sample
\* C11: for every target_length >= 1 and every stride >= 1, the chain that
\* sample() returns holds exactly target_length configurations.
C11_ExactTargetLength ==
    pc = "done" => Cardinality(DOMAIN decorrelated_chain) = target_length

\* C23: in sample() every batch has size dec_samp_per_batch * stride with one
\* stride for the whole production phase; each batch writes exactly
\* dec_samp_per_batch rows, the batches write disjoint consecutive rows, and
\* the rows are exactly stride steps of the continuous chain apart, across
\* the batch boundaries too.
C23_RowsOneStrideApart ==
    pc \in {"sample_loop", "done"} =>
        LET dec == dec_samp_per_batch(target_length, sample_interval)
            rows == batch * dec
        IN
        /\ \A c \in 1 .. Len(calls) :
               calls[c].batch_size = dec * sample_interval
        /\ sb_pc = "idle" => n_random["sample"] = rows * sample_interval
        /\ \A q \in DOMAIN chain_steps :
               /\ chain_steps[q] # 0 <=> q < rows
               /\ decorrelated_chain[q] # Unwritten <=> q < rows
        /\ \A q \in DOMAIN chain_steps :
               q + 1 < rows => chain_steps[q + 1] - chain_steps[q] = sample_interval

\* The second batch of a production with stride 2 and two rows per batch
\* has been added to the chain.
C23_Witness ==
    /\ pc = "sample_loop"
    /\ sb_pc = "idle"
    /\ batch = 2
    /\ sample_interval = 2
    /\ dec_samp_per_batch(target_length, sample_interval) = 2
    /\ chain_steps[2] - chain_steps[1] = 2

\* C19: sample_batch touches no shared mutable state: it writes nothing to
\* the filesystem, so no file of the working directory ever holds the data
\* of a call, and concurrent callers cannot overwrite each other's data.
C19_NoSharedState == \A f \in FileNames : files[f] = None

\* ------------------------------------------------------- claims: layers
\* The indices a slice selects.
Indices(ind) == ind.start .. ind.stop - 1

\* C12: for both parities, splitting a configuration of length 2 * size_half
\* into its passive and active halves and joining them with the layer's
\* join function returns the configuration, every component at its index;
\* the passive and the active indices are disjoint, size_half each, and
\* cover all indices.
C12_JoinSplit ==
    \A even_sites \in BOOLEAN : \A v \in {input_states, v_in} :
        v # Empty =>
            LET p == passive_ind(size_half, even_sites)
                a == active_ind(size_half, even_sites)
            IN
            /\ join_func(even_sites, Index(v, p), Index(v, a)) = v
            /\ Indices(p) \cap Indices(a) = {}
            /\ Cardinality(Indices(p)) = size_half
            /\ Cardinality(Indices(a)) = size_half
            /\ Indices(p) \cup Indices(a) = DOMAIN v

\* A layer whose passive half is the second one has been applied to the
\* latent [1, 2, 3, 4].
C12_Witness ==
    /\ size_half = 2 /\ input_states = Ramp(2)
    /\ el = 1 /\ ~inner_layers[1].even_sites
    /\ v_in = input_states

\* The sum of the log-Jacobian contributions of layers k, k + 1, ... applied
\* in order to the configuration v.
RECURSIVE JacobianSum(_, _, _, _)
JacobianSum(h, layers, k, v) ==
    IF k > Len(layers) THEN 0
    ELSE LET r == Forward(h, layers[k], v, 0) IN
         r.log_density + JacobianSum(h, layers, k + 1, r.v_out)

IdentityScenario ==
    /\ size_half = 2
    /\ Len(inner_layers) = 3
    /\ \A k \in 1 .. 3 :
          /\ inner_layers[k].kind = "affine"
          /\ inner_layers[k].net = "zero"
    /\ inner_layers[1].even_sites # inner_layers[2].even_sites
    /\ inner_layers[2].even_sites # inner_layers[3].even_sites
    /\ input_states = Ramp(2)

\* C14: three affine layers of alternating parity on L = 4 with conditioners
\* returning zero s and t are the identity: the latent [1, 2, 3, 4] comes out
\* as [1, 2, 3, 4], every component in its place, after each layer and at
\* the end, and the total log-density is the base log-density.
C14_ZeroConditionerIdentity ==
    IdentityScenario =>
        /\ el > 0 =>
              /\ v_out = [p \in 0 .. 3 |-> (p + 1) * Unit]
              /\ input_log_density = pass_base
        /\ l_pc = "compared" =>
              /\ seq_output_states = [p \in 0 .. 3 |-> (p + 1) * Unit]
              /\ output_states = [p \in 0 .. 3 |-> (p + 1) * Unit]
              /\ seq_output_density = seq_base
              /\ seq_base \in BaseLogDensities

\* The three layers have been applied, the first with the first half passive.
C14_Witness ==
    /\ IdentityScenario
    /\ inner_layers[1].even_sites
    /\ l_pc = "compared"
    /\ seq_base = 3

TwoLayers(h, layers, v) ==
    Forward(h, layers[2], Forward(h, layers[1], v, 0).v_out, 0).v_out

\* The latent v with d added to component x.
Perturbed(v, x, d) == [v EXCEPT ![x] = @ + d]

\* Two layers of opposite parity have been applied by hand to input_states.
TwoOpposite ==
    /\ l_pc = "manual" /\ el = 2
    /\ inner_layers[1].even_sites # inner_layers[2].even_sites

\* The indices of the half that is active in the first layer.
FirstActive ==
    IF inner_layers[1].even_sites
    THEN size_half .. 2 * size_half - 1
    ELSE 0 .. size_half - 1

PassiveKept(h, even_sites, v, out) ==
    /\ DOMAIN out = DOMAIN v
    /\ \A p \in Indices(passive_ind(h, even_sites)) : out[p] = v[p]

\* The additive and affine layers: the layer applied last kept the passive
\* half of what it was given.
AffineKeepsPassive ==
    el > 0 =>
        PassiveKept(size_half, inner_layers[el].even_sites, v_in, v_out)

\* C21: every coupling layer, additive, affine or spline, of either parity,
\* returns an output of the shape of its input whose passive half is the
\* passive half of the input, at the same indices: a forward call that has
\* ended has returned, and only active components differ.
C21_PassiveUnchanged ==
    /\ AffineKeepsPassive
    /\ sp_pc \in {"raised", "returned"} =>
          /\ sp_pc = "returned"
          /\ numel(rqs_v_out) = numel(rqs_v_in_active)

\* C20: a coupling layer's forward call is pure with respect to its
\* arguments: when it returns, the configuration tensor and the log-density
\* tensor it was passed hold what they held when it was called, and calling
\* it twice with the same arguments gives the same result.
C20_ForwardPure ==
    /\ el > 0 =>
          /\ input_log_density = density_in
          /\ el = 1 => input_states = v_in
    /\ (l_pc = "compared" /\ Len(inner_layers) = 1) =>
          /\ seq_output_states = output_states
          /\ seq_output_density = output_density

\* ------------------------------------------------------ claims: splines
\* C16: for every strictly increasing knot sequence knot_x[0 .. K] and every
\* value, the bin lookup returns the k with knot_x[k] <= value < knot_x[k+1];
\* a value equal to an interior knot knot_x[k] is assigned bin k; values at
\* or beyond the outer knots are assigned bin 0 or bin K - 1.
C16_BinLookup ==
    sp_pc = "located" =>
        LET K == numel(knots_xcoords) - 1
            k == k_this_segment
        IN
        /\ k \in 0 .. K - 1
        /\ (knots_xcoords[0] <= value /\ value < knots_xcoords[K]) =>
              (knots_xcoords[k] <= value /\ value < knots_xcoords[k + 1])
        /\ value <= knots_xcoords[0] => k = 0
        /\ value >= knots_xcoords[K] => k = K - 1

\* C17: RationalQuadraticSplineLayer.forward never ends in an error; it
\* returns every active component with |v| > B unchanged.
C17_TailsUnchanged ==
    sp_pc \in {"raised", "returned"} =>
        /\ rqs_error = ""
        /\ \A k \in DOMAIN rqs_v_in_active :
              abs(rqs_v_in_active[k]) > B =>
                  rqs_v_out[k] = rqs_v_in_active[k]

\* -------------------------------------------------------- claims: train
\* The process has left train(): by return, or with SystemExit.
LeftTrain == {"returned", "exited"}

\* C22: whenever train() is left after its loop has ended, at final_epoch or
\* by a SIGTERM or SIGINT delivered at any point inside the loop, the step
\* that leaves train() is the finally clause saving a checkpoint labelled
\* with the current epoch: no way out of the loop skips the final checkpoint.
C22_FinalCheckpointSaved ==
    [][(/\ t_pc \notin LeftTrain
        /\ t_pc' \in LeftTrain
        /\ \A k \in DOMAIN signal_at' : signal_at'[k] \in InsideTry) =>
          /\ t_pc = "finally"
          /\ Len(checkpoints') = Len(checkpoints) + 1
          /\ checkpoints'[Len(checkpoints')].epoch = current_epoch']_vars

\* A signal delivered between two lines of training_update, in the second
\* epoch or later, has ended the process, and the checkpoint saved last
\* bears the current epoch.
C22_Witness ==
    /\ t_pc = "exited"
    /\ signal_at = <<"scheduler">>
    /\ optimizer_steps >= 2
    /\ Len(checkpoints) >= 1
    /\ checkpoints[Len(checkpoints)].epoch = current_epoch

\* C26: every checkpoint train() saves, the one of the finally clause after
\* an interrupt included, is labelled with the starting epoch plus the
\* number of optimizer steps applied to the model it holds; no checkpoint is
\* labelled one less than that.
C26_LabelCountsUpdates ==
    \A k \in DOMAIN checkpoints :
        checkpoints[k].epoch = start_epoch + checkpoints[k].optimizer_steps

=============================================================================
